---- MODULE Spec2Model ----
(***************************************************************************)
(* Tour-break gap analysis of phishmuse: the record store built by         *)
(* PhishDataLoader (src/src/data_loader.py) and the analyses of            *)
(* TourGapAnalyzer (src/src/tour_gap_analysis.py).                         *)
(*                                                                         *)
(* Dates are day ordinals (integers); a p-value p is held as the integer   *)
(* 1000 * p; a mean is held as the pair <<sum, count>>.                    *)
(***************************************************************************)
EXTENDS Integers, Sequences, FiniteSets, Bags, TLC

VARIABLES
    raw,          \* what api.get_all_setlists returns: a sequence of entries
    loaded,       \* has load_all_data run on this loader
    shows,        \* loader.shows
    songs,        \* loader.songs, a dict: a sequence of Song in insertion order
    tours,        \* loader.tours, a dict: a sequence of Tour in insertion order
    tour_breaks,  \* loader.tour_breaks
    break_threshold,  \* analyzer.break_threshold
    result        \* what the last analysis call returned

vars == <<raw, loaded, shows, songs, tours, tour_breaks, break_threshold, result>>

(***************************************************************************)
(* Bounds of the model.                                                    *)
(***************************************************************************)
MaxTours == 6        \* runs of shows in a regular touring schedule
MaxRunLen == 3       \* shows per run in a regular touring schedule
MaxRawEntries == 3   \* entries of an irregular API answer
MaxConfiguredTours == 2   \* runs of a schedule given to a configured analyzer

SongNames == {"Tweezer", "Ghost"}
IntraDayGaps == {1, 14}      \* days between two shows of one run
InterDayGaps == {15, 30}     \* days between two runs
SetlistSchemes == {"TG", "GT", "GTG", "opener", "ends"}
MinPerformanceChoices == {1, 2, 12}
PValues == {10, 1000}        \* 0.010 and 1.0

(***************************************************************************)
(* Program constants.                                                      *)
(***************************************************************************)
DefaultBreakThreshold == 14   \* break_threshold_days / min_days defaults
MinObservations == 5          \* floor of the significance tests
DefaultPvalue == 1000         \* ttest_pvalue / mannwhitney_pvalue = 1.0
PhishArtistId == 1            \* artistid of Phish in the API answer
DefaultAnalyzerThreshold == 14   \* tour_break_threshold_days default
DefaultMinPerformances == 30     \* min_performances default of aggregate_analysis
DefaultWindow == 3               \* n_shows_window default

WindowChoices == {1, DefaultWindow}   \* n_shows_window of a call

(***************************************************************************)
(* Helpers over sequences.                                                 *)
(***************************************************************************)
Range(s) == {s[i] : i \in 1..Len(s)}

\* The sum of s[lo..hi], and the sum of s.
RECURSIVE SumRange(_, _, _)
SumRange(s, lo, hi) ==
    IF lo > hi THEN 0
    ELSE IF lo = hi THEN s[lo]
    ELSE LET mid == (lo + hi) \div 2
         IN  SumRange(s, lo, mid) + SumRange(s, mid + 1, hi)

SumSeq(s) == SumRange(s, 1, Len(s))

\* The concatenation of ss[lo..hi], and of the sequences of ss.
RECURSIVE FlattenRange(_, _, _)
FlattenRange(ss, lo, hi) ==
    IF lo > hi THEN <<>>
    ELSE IF lo = hi THEN ss[lo]
    ELSE LET mid == (lo + hi) \div 2
         IN  FlattenRange(ss, lo, mid) \o FlattenRange(ss, mid + 1, hi)

Flatten(ss) == FlattenRange(ss, 1, Len(ss))

RECURSIVE SeqsUpTo(_, _)
SeqsUpTo(S, n) ==
    IF n = 0 THEN {<<>>}
    ELSE LET shorter == SeqsUpTo(S, n - 1)
         IN  shorter \cup {Append(s, x) : s \in {t \in shorter : Len(t) = n - 1}, x \in S}

\* Python's sorted(seq, key=...): ascending by key, stable.  keys[i] is the
\* key of seq[i].
SortedByKey(seq, keys) ==
    LET n == Len(seq)
        pos == [i \in 1..n |->
                  Cardinality({j \in 1..n : keys[j] < keys[i]})
                + Cardinality({j \in 1..i : keys[j] = keys[i]})]
        inv == [p \in 1..n |-> CHOOSE i \in 1..n : pos[i] = p]
    IN  [p \in 1..n |-> seq[inv[p]]]

\* The elements of seq[lo..hi] whose index is in idx, in order.
RECURSIVE Pick(_, _, _, _)
Pick(seq, idx, lo, hi) ==
    IF lo > hi THEN <<>>
    ELSE IF lo = hi THEN (IF lo \in idx THEN <<seq[lo]>> ELSE <<>>)
    ELSE LET mid == (lo + hi) \div 2
         IN  Pick(seq, idx, lo, mid) \o Pick(seq, idx, mid + 1, hi)

\* The elements of seq whose index satisfies Keep, in order.
SelectIdx(seq, Keep(_)) == Pick(seq, {i \in 1..Len(seq) : Keep(i)}, 1, Len(seq))

(***************************************************************************)
(* The API answers the model draws from.                                   *)
(*                                                                         *)
(* A regular schedule: nTours runs of runLen shows, intraGap days between  *)
(* the shows of a run and interGap days between runs; every show plays     *)
(* the setlist its scheme gives; the API's gap of an entry is the number   *)
(* of shows since the song was last played (0 at its debut and for a       *)
(* second play in one show).                                               *)
(***************************************************************************)
\* The setlist of the show at posInRun of a run of runLen shows: both songs
\* every night ("TG", "GT"), Ghost around Tweezer every night ("GTG"), Ghost
\* at the first night of a run only ("opener"), Ghost at the first and the
\* last night of a run ("ends").
SchemeSetlist(scheme, posInRun, runLen) ==
    CASE scheme = "TG"     -> <<"Tweezer", "Ghost">>
      [] scheme = "GT"     -> <<"Ghost", "Tweezer">>
      [] scheme = "GTG"    -> <<"Ghost", "Tweezer", "Ghost">>
      [] scheme = "opener" -> IF posInRun = 1 THEN <<"Ghost", "Tweezer">>
                                              ELSE <<"Tweezer">>
      [] OTHER             -> IF posInRun = 1 \/ posInRun = runLen
                              THEN <<"Tweezer", "Ghost">> ELSE <<"Tweezer">>

RegularDate(k, runLen, intraGap, interGap) ==
    LET run == (k - 1) \div runLen
        pos == (k - 1) % runLen
    IN  run * ((runLen - 1) * intraGap + interGap) + pos * intraGap

RegularRaw(nTours, runLen, intraGap, interGap, scheme) ==
    LET n == nTours * runLen
        setlist(k) == SchemeSetlist(scheme, ((k - 1) % runLen) + 1, runLen)
        playedIn(k, name) == \E p \in 1..Len(setlist(k)) : setlist(k)[p] = name
        apiGap(k, p) ==
            LET name == setlist(k)[p]
                before == {j \in 1..(k - 1) : playedIn(j, name)}
            IN  IF \E q \in 1..(p - 1) : setlist(k)[q] = name THEN 0
                ELSE IF before = {} THEN 0
                ELSE k - (CHOOSE j \in before : \A i \in before : i <= j)
        showEntries(k) ==
            [p \in 1..Len(setlist(k)) |->
                [showid   |-> k,
                 showdate |-> RegularDate(k, runLen, intraGap, interGap),
                 song     |-> setlist(k)[p],
                 position |-> p,
                 set      |-> "1",
                 gap      |-> apiGap(k, p),
                 tourid   |-> ((k - 1) \div runLen) + 1,
                 artistid |-> PhishArtistId]]
    IN  Flatten([k \in 1..n |-> showEntries(k)])

RegularInputs ==
    {RegularRaw(nt, rl, ig, og, sc) :
        nt \in 1..MaxTours, rl \in 1..MaxRunLen,
        ig \in IntraDayGaps, og \in InterDayGaps, sc \in SetlistSchemes}

(***************************************************************************)
(* An irregular answer: up to MaxRawEntries entries in any arrival order   *)
(* over two Phish shows and one show of another artist (showid 3); the     *)
(* shows have no tour id, and the gap and position of an entry are its     *)
(* arrival index.                                                          *)
(***************************************************************************)
IrregularDates == {<<0, 0>>, <<0, 14>>, <<0, 15>>, <<15, 0>>}
IrregularPicks ==
    {<<1, "Tweezer">>, <<1, "Ghost">>, <<2, "Tweezer">>, <<2, "Ghost">>,
     <<3, "Tweezer">>}

IrregularRaw(picks, dates) ==
    [i \in 1..Len(picks) |->
        [showid   |-> picks[i][1],
         showdate |-> IF picks[i][1] = 3 THEN 7 ELSE dates[picks[i][1]],
         song     |-> picks[i][2],
         position |-> i,
         set      |-> "1",
         gap      |-> i,
         tourid   |-> 0,
         artistid |-> IF picks[i][1] = 3 THEN 2 ELSE PhishArtistId]]

IrregularInputs ==
    {IrregularRaw(picks, dates) :
        picks \in SeqsUpTo(IrregularPicks, MaxRawEntries), dates \in IrregularDates}

(***************************************************************************)
(* A steady rotation: Tweezer at every show of a schedule of two-night     *)
(* runs (1 day inside a run, 15 days between runs), played nShows times;   *)
(* the API reports the gap intraApiGap for a play on the second night of   *)
(* a run and crossApiGap for a play on the first night (its gaps count     *)
(* the shows of the band's whole history, of which the answer is a part).  *)
(***************************************************************************)
SteadyApiGaps ==
    {[intra |-> 4, cross |-> 9], [intra |-> 5, cross |-> 6], [intra |-> 5, cross |-> 4],
     [intra |-> 5, cross |-> 3], [intra |-> 0, cross |-> 9], [intra |-> 5, cross |-> 0]}

SteadyRaw(nShows, apiGaps) ==
    [k \in 1..nShows |->
        [showid   |-> k,
         showdate |-> ((k - 1) \div 2) * 16 + ((k - 1) % 2),
         song     |-> "Tweezer",
         position |-> 1,
         set      |-> "1",
         gap      |-> IF k = 1 THEN 0
                      ELSE IF k % 2 = 0 THEN apiGaps.intra ELSE apiGaps.cross,
         tourid   |-> ((k - 1) \div 2) + 1,
         artistid |-> PhishArtistId]]

\* One play short of, and exactly at, the default minimum of performances.
SteadyInputs ==
    {SteadyRaw(n, g) : n \in {DefaultMinPerformances - 1, DefaultMinPerformances},
                       g \in SteadyApiGaps}

RawInputs == RegularInputs \cup IrregularInputs \cup SteadyInputs

NoResult == [op |-> "none"]

Init ==
    /\ raw \in RawInputs
    /\ loaded = FALSE
    /\ shows = <<>>
    /\ songs = <<>>
    /\ tours = <<>>
    /\ tour_breaks = <<>>
    /\ break_threshold = DefaultAnalyzerThreshold
    /\ result = NoResult

(***************************************************************************)
(* The record store: PhishDataLoader.                                      *)
(***************************************************************************)
\* The keys of a sequence in order of first appearance (dict insertion order).
DistinctInOrder(keys) ==
    SelectIdx(keys, LAMBDA i : \A j \in 1..(i - 1) : keys[j] # keys[i])

\* A dict is held as the sequence of its values in insertion order, each a
\* record with the field key: writing an existing key keeps its place, a new
\* key goes last.
HasKey(d, key) == \E i \in 1..Len(d) : d[i].key = key
DictGet(d, key) == d[CHOOSE i \in 1..Len(d) : d[i].key = key]

SongPerformance(entry) ==
    [song_name |-> entry.song,
     show_id   |-> entry.showid,
     show_date |-> entry.showdate,
     position  |-> entry.position,
     set_type  |-> entry.set,
     gap       |-> entry.gap,
     tour_id   |-> entry.tourid]

\* _build_shows: one Show per show id, dated by its first entry, holding its
\* entries' performances in arrival order; the shows sorted by date.
BuildShows(raw_setlists) ==
    LET ids == DistinctInOrder([i \in 1..Len(raw_setlists) |-> raw_setlists[i].showid])
        first(id) == raw_setlists[CHOOSE i \in 1..Len(raw_setlists) :
                        /\ raw_setlists[i].showid = id
                        /\ \A j \in 1..(i - 1) : raw_setlists[j].showid # id]
        show(id) ==
            [show_id   |-> id,
             show_date |-> first(id).showdate,
             tour_id   |-> first(id).tourid,
             songs     |-> LET mine == SelectIdx(raw_setlists,
                                         LAMBDA i : raw_setlists[i].showid = id)
                           IN  [p \in 1..Len(mine) |-> SongPerformance(mine[p])]]
        show_map == [i \in 1..Len(ids) |-> show(ids[i])]
    IN  SortedByKey(show_map, [i \in 1..Len(show_map) |-> show_map[i].show_date])

\* _build_songs: the catalog, one Song per song name in order of first
\* appearance over the shows, written into the dict the loader already holds.
BuildSongs(old_songs, the_shows) ==
    LET all_perfs == Flatten([i \in 1..Len(the_shows) |-> the_shows[i].songs])
        names == DistinctInOrder([i \in 1..Len(all_perfs) |-> all_perfs[i].song_name])
        perfs(name) == SelectIdx(all_perfs, LAMBDA i : all_perfs[i].song_name = name)
        song(name) ==
            LET ps == perfs(name)
            IN  [key          |-> name,
                 name         |-> name,
                 times_played |-> Len(ps),
                 performances |-> SortedByKey(ps, [i \in 1..Len(ps) |-> ps[i].show_date])]
        fresh == SelectIdx(names, LAMBDA i : ~HasKey(old_songs, names[i]))
    IN  [i \in 1..Len(old_songs) |->
            IF old_songs[i].key \in Range(names) THEN song(old_songs[i].key)
            ELSE old_songs[i]]
        \o [i \in 1..Len(fresh) |-> song(fresh[i])]

\* _count_consecutive_shows_before / _after, with 1-based show indices.
RECURSIVE CountConsecutiveShowsBefore(_, _, _)
CountConsecutiveShowsBefore(the_shows, idx, threshold) ==
    IF idx <= 1 THEN 1
    ELSE IF the_shows[idx].show_date - the_shows[idx - 1].show_date > threshold THEN 1
    ELSE 1 + CountConsecutiveShowsBefore(the_shows, idx - 1, threshold)

\* A forward count that runs to the last show.
CountConsecutiveShowsAfter_ToEnd(the_shows, idx, threshold) ==
    Len(the_shows) - idx + 1

RECURSIVE CountConsecutiveShowsAfter(_, _, _)
CountConsecutiveShowsAfter(the_shows, idx, threshold) ==
    IF idx >= Len(the_shows) THEN 1
    ELSE IF the_shows[idx + 1].show_date - the_shows[idx].show_date > threshold THEN 1
    ELSE 1 + CountConsecutiveShowsAfter(the_shows, idx + 1, threshold)

\* A segmentation whose boundary is inclusive.
IsBreakGap_Inclusive(days_between, break_threshold_days) ==
    days_between >= break_threshold_days

\* The test of line 202: is the gap before show i a tour break.
IsBreakGap(days_between, break_threshold_days) == days_between > break_threshold_days

\* The tours of _identify_tours_and_breaks: the shows grouped by the API's
\* tour id (a falsy id, 0 here, groups nowhere).
BuildTours(old_tours, the_shows) ==
    LET withTour == SelectIdx(the_shows, LAMBDA i : the_shows[i].tour_id # 0)
        ids == DistinctInOrder([i \in 1..Len(withTour) |-> withTour[i].tour_id])
        tour(id) ==
            LET ss == SelectIdx(withTour, LAMBDA i : withTour[i].tour_id = id)
                sorted == SortedByKey(ss, [i \in 1..Len(ss) |-> ss[i].show_date])
            IN  [key        |-> id,
                 tour_id    |-> id,
                 start_date |-> sorted[1].show_date,
                 end_date   |-> sorted[Len(sorted)].show_date,
                 shows      |-> [i \in 1..Len(sorted) |-> sorted[i].show_id]]
        fresh == SelectIdx(ids, LAMBDA i : ~HasKey(old_tours, ids[i]))
    IN  [i \in 1..Len(old_tours) |->
            IF old_tours[i].key \in Range(ids) THEN tour(old_tours[i].key)
            ELSE old_tours[i]]
        \o [i \in 1..Len(fresh) |-> tour(fresh[i])]

\* A segmentation that records the breaks latest first.
BuildTourBreaks_LatestFirst(old_breaks, the_shows, break_threshold_days) ==
    LET days_between(i) == the_shows[i].show_date - the_shows[i - 1].show_date
        break_at == {i \in 2..Len(the_shows) :
                        IsBreakGap(days_between(i), break_threshold_days)}
        at == SelectIdx([i \in 1..Len(the_shows) |-> i], LAMBDA i : i \in break_at)
        tour_break(i) ==
            [end_show     |-> the_shows[i - 1].show_id,
             start_show   |-> the_shows[i].show_id,
             days_between |-> days_between(i),
             shows_in_previous_tour |->
                 CountConsecutiveShowsBefore(the_shows, i - 1, break_threshold_days),
             shows_in_next_tour |->
                 CountConsecutiveShowsAfter(the_shows, i, break_threshold_days)]
    IN  IF Len(the_shows) < 2 THEN old_breaks
        ELSE old_breaks \o [k \in 1..Len(at) |-> tour_break(at[Len(at) + 1 - k])]

\* The breaks of _identify_tours_and_breaks, appended to the list the loader
\* already holds.
BuildTourBreaks(old_breaks, the_shows, break_threshold_days) ==
    LET days_between(i) == the_shows[i].show_date - the_shows[i - 1].show_date
        break_at == {i \in 2..Len(the_shows) :
                        IsBreakGap(days_between(i), break_threshold_days)}
        at == SelectIdx([i \in 1..Len(the_shows) |-> i], LAMBDA i : i \in break_at)
        tour_break(i) ==
            [end_show     |-> the_shows[i - 1].show_id,
             start_show   |-> the_shows[i].show_id,
             days_between |-> days_between(i),
             shows_in_previous_tour |->
                 CountConsecutiveShowsBefore(the_shows, i - 1, break_threshold_days),
             shows_in_next_tour |->
                 CountConsecutiveShowsAfter(the_shows, i, break_threshold_days)]
    IN  IF Len(the_shows) < 2 THEN old_breaks
        ELSE old_breaks \o [k \in 1..Len(at) |-> tour_break(at[k])]

\* load_all_data, rebuilding from the API answer: keep Phish's entries, build
\* the shows, the catalog, the tours and the breaks.
LoadAllData ==
    /\ ~loaded
    /\ \E new_shows \in {BuildShows(SelectIdx(raw,
                                LAMBDA i : raw[i].artistid = PhishArtistId))} :
           /\ shows' = new_shows
           /\ songs' = BuildSongs(songs, new_shows)
           /\ tours' = IF Len(new_shows) < 2 THEN tours ELSE BuildTours(tours, new_shows)
           /\ tour_breaks' = BuildTourBreaks(tour_breaks, new_shows, DefaultBreakThreshold)
    /\ loaded' = TRUE
    /\ result' = NoResult
    /\ UNCHANGED <<raw, break_threshold>>

(***************************************************************************)
(* The loader's queries.                                                   *)
(***************************************************************************)
\* _get_show_by_id: <<show>>, or <<>> for Python's None.
GetShowById(the_shows, show_id) ==
    SelectIdx(the_shows,
        LAMBDA i : /\ the_shows[i].show_id = show_id
                   /\ \A j \in 1..(i - 1) : the_shows[j].show_id # show_id)

\* _get_show_index_by_id, 0-based; -1 when the show is not loaded.
GetShowIndexById(the_shows, show_id) ==
    IF \E i \in 1..Len(the_shows) : the_shows[i].show_id = show_id
    THEN (CHOOSE i \in 1..Len(the_shows) :
            /\ the_shows[i].show_id = show_id
            /\ \A j \in 1..(i - 1) : the_shows[j].show_id # show_id) - 1
    ELSE -1

Abs(x) == IF x < 0 THEN -x ELSE x

\* A day-gap test whose boundary is inclusive.
IsTourBreakBetween_Inclusive(show1, show2, min_days) ==
    LET days == Abs(show2.show_date - show1.show_date)
    IN  <<days >= min_days, days>>

\* A day-gap test that takes twice the threshold of days for a break.
IsTourBreakBetween_Doubled(show1, show2, min_days) ==
    LET days == Abs(show2.show_date - show1.show_date)
    IN  <<days > 2 * min_days, days>>

\* is_tour_break_between(show1, show2, min_days): <<is_break, days>>.
IsTourBreakBetween(show1, show2, min_days) ==
    LET days == Abs(show2.show_date - show1.show_date)
    IN  <<days > min_days, days>>

\* get_performances_with_context: one context per performance of the song, in
\* date order.  raised is TRUE when a show lookup gives None, on which
\* is_tour_break_between raises AttributeError.
GetPerformancesWithContext(the_songs, the_shows, song_name) ==
    IF ~HasKey(the_songs, song_name) THEN [raised |-> FALSE, contexts |-> <<>>]
    ELSE
    LET song == DictGet(the_songs, song_name)
        perfs == SortedByKey(song.performances,
                    [i \in 1..Len(song.performances) |-> song.performances[i].show_date])
        found(i) == GetShowById(the_shows, perfs[i].show_id)
        context(i) ==
            IF i = 1
            THEN [performance |-> perfs[i], has_prev |-> FALSE,
                  gap_shows |-> 0, gap_days |-> 0,
                  crosses_tour_break |-> FALSE, tour_break_days |-> 0,
                  show_index |-> GetShowIndexById(the_shows, perfs[i].show_id)]
            ELSE LET prev == perfs[i - 1]
                     between == IsTourBreakBetween(found(i - 1)[1], found(i)[1],
                                                   DefaultBreakThreshold)
                 IN  [performance |-> perfs[i], has_prev |-> TRUE,
                      gap_shows |-> perfs[i].gap,
                      gap_days |-> perfs[i].show_date - prev.show_date,
                      crosses_tour_break |-> between[1],
                      tour_break_days |-> IF between[1] THEN between[2] ELSE 0,
                      show_index |-> GetShowIndexById(the_shows, perfs[i].show_id)]
    IN  IF \E i \in 2..Len(perfs) : found(i) = <<>> \/ found(i - 1) = <<>>
        THEN [raised |-> TRUE, contexts |-> <<>>]
        ELSE [raised |-> FALSE, contexts |-> [i \in 1..Len(perfs) |-> context(i)]]

(***************************************************************************)
(* GapComparison and its statistics.  A mean is [num, den]; the median is  *)
(* held doubled; the standard deviation is held squared, as [num, den].    *)
(***************************************************************************)
Zero == [num |-> 0, den |-> 1]

Mean(xs) == [num |-> SumSeq(xs), den |-> Len(xs)]

Median2(xs) ==
    LET sorted == SortedByKey(xs, xs)
        n == Len(xs)
    IN  IF n % 2 = 1 THEN 2 * sorted[(n + 1) \div 2]
        ELSE sorted[n \div 2] + sorted[(n \div 2) + 1]

Variance(xs) ==
    LET n == Len(xs)
        total == SumSeq(xs)
    IN  [num |-> n * SumSeq([i \in 1..n |-> xs[i] * xs[i]]) - total * total,
         den |-> n * n]

\* What scipy's two tests give when they are run: the two p-values the
\* comparison ends with (an exception leaves the default in place).
TestOutcomes == [ttest : PValues, mannwhitney : PValues]

\* GapComparison(song_name, ...): the dataclass with its defaults.
NewGapComparison(song_name, intra_gaps, intra_days, cross_gaps, cross_days) ==
    [song_name          |-> song_name,
     intra_tour_gaps    |-> intra_gaps,
     intra_tour_days    |-> intra_days,
     cross_tour_gaps    |-> cross_gaps,
     cross_tour_days    |-> cross_days,
     intra_mean_gap     |-> Zero,
     intra_median_gap   |-> 0,
     intra_std_gap      |-> Zero,
     cross_mean_gap     |-> Zero,
     cross_median_gap   |-> 0,
     cross_std_gap      |-> Zero,
     ttest_pvalue       |-> DefaultPvalue,
     mannwhitney_pvalue |-> DefaultPvalue]

\* compute_stats, lines 49-57: the descriptive statistics.
Describe(c) ==
    LET with_intra ==
            IF c.intra_tour_gaps # <<>>
            THEN [c EXCEPT !.intra_mean_gap = Mean(c.intra_tour_gaps),
                           !.intra_median_gap = Median2(c.intra_tour_gaps),
                           !.intra_std_gap = Variance(c.intra_tour_gaps)]
            ELSE c
    IN  IF c.cross_tour_gaps # <<>>
        THEN [with_intra EXCEPT !.cross_mean_gap = Mean(c.cross_tour_gaps),
                                !.cross_median_gap = Median2(c.cross_tour_gaps),
                                !.cross_std_gap = Variance(c.cross_tour_gaps)]
        ELSE with_intra

\* A floor that one large population satisfies.
EnoughForTests_Either(n_intra, n_cross) ==
    n_intra >= MinObservations \/ n_cross >= MinObservations

\* Are the significance tests run (line 60).
EnoughForTests(n_intra, n_cross) ==
    n_intra >= MinObservations /\ n_cross >= MinObservations

\* compute_stats, lines 60-70: the two tests; outcome is what they give on
\* the two populations of c.
RunTests(c, outcome) ==
    IF EnoughForTests(Len(c.intra_tour_gaps), Len(c.cross_tour_gaps))
    THEN [c EXCEPT !.ttest_pvalue = outcome.ttest,
                   !.mannwhitney_pvalue = outcome.mannwhitney]
    ELSE c

ComputeStats(c, outcome) == RunTests(Describe(c), outcome)

(***************************************************************************)
(* TourGapAnalyzer.                                                        *)
(***************************************************************************)
\* A classifier that does not skip the first performance.
HasPair_Always(ctx) == TRUE

\* Does the context carry a pair (lines 113-114: the first performance of a
\* song has no previous one and is skipped).
HasPair(ctx) == ctx.has_prev

\* Does analyze_song put the pair of this context in the cross-tour lists,
\* and in the intra-tour lists.
GoesToCross(ctx) == ctx.crosses_tour_break
\* A classifier whose intra-tour branch is not an else-branch.
GoesToIntra_Always(ctx) == TRUE
GoesToIntra(ctx) == ~ctx.crosses_tour_break

\* analyze_song, lines 105-132: the pairs of the song put in the two
\* populations; [raised, comparison].
ClassifySong(the_songs, the_shows, song_name) ==
    LET got == GetPerformancesWithContext(the_songs, the_shows, song_name)
        contexts == got.contexts
        cross == SelectIdx(contexts, LAMBDA i : HasPair(contexts[i]) /\ GoesToCross(contexts[i]))
        intra == SelectIdx(contexts, LAMBDA i : HasPair(contexts[i]) /\ GoesToIntra(contexts[i]))
    IN  [raised |-> got.raised,
         comparison |->
            NewGapComparison(song_name,
                [i \in 1..Len(intra) |-> intra[i].gap_shows],
                [i \in 1..Len(intra) |-> intra[i].gap_days],
                [i \in 1..Len(cross) |-> cross[i].gap_shows],
                [i \in 1..Len(cross) |-> cross[i].gap_days])]

\* analyze_song: [raised, comparison]; outcome is what the tests give on the
\* song's populations.
AnalyzeSong(the_songs, the_shows, song_name, outcome) ==
    LET g == ClassifySong(the_songs, the_shows, song_name)
    IN  [raised |-> g.raised, comparison |-> ComputeStats(g.comparison, outcome)]

\* analyze_song up to the significance tests, which are the only part of it
\* that depends on the outcome.
DescribeSong(the_songs, the_shows, song_name) ==
    LET g == ClassifySong(the_songs, the_shows, song_name)
    IN  [raised |-> g.raised, comparison |-> Describe(g.comparison)]

\* analyze_song of every song name, up to the significance tests.
DescribeAll(the_songs, the_shows) ==
    [name \in SongNames |-> DescribeSong(the_songs, the_shows, name)]

\* The tests are functions of their two samples: songs with the same
\* populations get the same outcome.
TestOracles(described) ==
    LET same == {pair \in SongNames \X SongNames :
                    /\ described[pair[1]].comparison.intra_tour_gaps
                         = described[pair[2]].comparison.intra_tour_gaps
                    /\ described[pair[1]].comparison.cross_tour_gaps
                         = described[pair[2]].comparison.cross_tour_gaps}
    IN  {t \in [SongNames -> TestOutcomes] : \A pair \in same : t[pair[1]] = t[pair[2]]}

\* The filter of lines 142 and 167: is the song analysed at all.
PlayedEnough(song, min_performances) == song.times_played >= min_performances

\* The filter of line 148: is the song's comparison put in the ranking.
RankedFilter(comparison) ==
    /\ Len(comparison.intra_tour_gaps) >= MinObservations
    /\ Len(comparison.cross_tour_gaps) >= MinObservations

\* The filter of line 172: is the song's comparison pooled.
PooledFilter(comparison) ==
    comparison.intra_tour_gaps # <<>> /\ comparison.cross_tour_gaps # <<>>

\* self.analyze_song(song_name) for the songs of the catalog that are played
\* enough, in catalog order; described[name] is analyze_song of the song up
\* to the tests and tests[name] what the tests give on it.
ComparisonsOf(catalog, described, min_performances, tests) ==
    LET played == SelectIdx(catalog, LAMBDA i : PlayedEnough(catalog[i], min_performances))
    IN  [i \in 1..Len(played) |->
            [raised     |-> described[played[i].name].raised,
             comparison |-> RunTests(described[played[i].name].comparison,
                                     tests[played[i].name])]]

\* A ranking that returns the results as they were collected.
RankResults_Unsorted(results) == results

\* The order analyze_all_songs returns its results in (line 151).
RankResults(results) ==
    SortedByKey(results, [i \in 1..Len(results) |-> results[i].mannwhitney_pvalue])

\* analyze_all_songs: [raised, results].
AnalyzeAllSongs(catalog, described, min_performances, tests) ==
    LET analysed == ComparisonsOf(catalog, described, min_performances, tests)
        kept == SelectIdx(analysed, LAMBDA i : RankedFilter(analysed[i].comparison))
    IN  [raised  |-> \E i \in 1..Len(analysed) : analysed[i].raised,
         results |-> RankResults([i \in 1..Len(kept) |-> kept[i].comparison])]

\* Are the pooled tests run (line 205).
PooledTestsRun(all_intra_gaps, all_cross_gaps) ==
    all_intra_gaps # <<>> /\ all_cross_gaps # <<>>

\* aggregate_analysis: the returned dict.  pvalues holds the keys ttest_pvalue
\* and mannwhitney_pvalue: <<>> when the dict has neither, one record when
\* it has both.
AggregateAnalysis(catalog, described, min_performances, tests, pooled_outcome) ==
    LET analysed == ComparisonsOf(catalog, described, min_performances, tests)
        kept == SelectIdx(analysed, LAMBDA i : PooledFilter(analysed[i].comparison))
        song_comparisons == [i \in 1..Len(kept) |-> kept[i].comparison]
        all_intra_gaps == Flatten([i \in 1..Len(kept) |-> song_comparisons[i].intra_tour_gaps])
        all_cross_gaps == Flatten([i \in 1..Len(kept) |-> song_comparisons[i].cross_tour_gaps])
        all_intra_days == Flatten([i \in 1..Len(kept) |-> song_comparisons[i].intra_tour_days])
        all_cross_days == Flatten([i \in 1..Len(kept) |-> song_comparisons[i].cross_tour_days])
        side(gaps, days) ==
            [mean_gap_shows   |-> IF gaps # <<>> THEN Mean(gaps) ELSE Zero,
             median_gap_shows |-> IF gaps # <<>> THEN Median2(gaps) ELSE 0,
             std_gap_shows    |-> IF gaps # <<>> THEN Variance(gaps) ELSE Zero,
             mean_gap_days    |-> IF days # <<>> THEN Mean(days) ELSE Zero,
             median_gap_days  |-> IF days # <<>> THEN Median2(days) ELSE 0]
        tested == PooledTestsRun(all_intra_gaps, all_cross_gaps)
    IN  [raised                |-> \E i \in 1..Len(analysed) : analysed[i].raised,
         total_songs_analyzed  |-> Len(song_comparisons),
         total_intra_tour_gaps |-> Len(all_intra_gaps),
         total_cross_tour_gaps |-> Len(all_cross_gaps),
         intra_tour            |-> side(all_intra_gaps, all_intra_days),
         cross_tour            |-> side(all_cross_gaps, all_cross_days),
         song_comparisons      |-> song_comparisons,
         pvalues               |->
            IF tested THEN <<[ttest_pvalue       |-> pooled_outcome.ttest,
                              mannwhitney_pvalue |-> pooled_outcome.mannwhitney]>>
            ELSE <<>>]

(***************************************************************************)
(* analyze_repeat_patterns.  Show indices are 1-based: the show at index i *)
(* is the code's shows[i - 1].  An observation is the dict the code        *)
(* appends, its gap <<>> for None and <<j>> for the offset j.              *)
(***************************************************************************)
\* A test that takes the first show for the start of a tour.
IsTourStart_FirstShowToo(the_shows, i, threshold) ==
    \/ i = 1
    \/ the_shows[i].show_date - the_shows[i - 1].show_date > threshold

\* Lines 227-231: does the show at index i start a new tour segment.
IsTourStart(the_shows, i, threshold) ==
    /\ i > 1
    /\ the_shows[i].show_date - the_shows[i - 1].show_date > threshold

\* A window that stops one show early.
WindowCandidates_Short(i, n_shows_window, n_shows) ==
    {j \in 1..n_shows_window : i + j < n_shows}

\* Lines 241-243: the offsets whose show exists.
WindowCandidates(i, n_shows_window, n_shows) ==
    {j \in 1..n_shows_window : i + j <= n_shows}

\* Lines 251-255: is the song in the show's setlist.
ShowPlays(show, song_name) ==
    \E p \in 1..Len(show.songs) : show.songs[p].song_name = song_name

\* The offset of the farthest recurrence.
RepeatGap_Last(hits) == CHOOSE j \in hits : \A k \in hits : k <= j

\* Lines 241-258: the loop goes up from 1 and stops at the first offset
\* whose show plays the song.
RepeatGap(hits) == CHOOSE j \in hits : \A k \in hits : j <= k

\* A lookahead that does not look past a tour break.
Observe_WithinTour(the_shows, i, song_name, n_shows_window) ==
    LET candidates == {j \in WindowCandidates(i, n_shows_window, Len(the_shows)) :
                          \A m \in (i + 1)..(i + j) :
                              ~IsTourStart(the_shows, m, DefaultAnalyzerThreshold)}
        hits == {j \in candidates : ShowPlays(the_shows[i + j], song_name)}
        repeated == hits # {}
        last_read == IF repeated THEN RepeatGap(hits) ELSE n_shows_window
    IN  [observation |-> [song     |-> song_name,
                          repeated |-> repeated,
                          gap      |-> IF repeated THEN <<RepeatGap(hits)>> ELSE <<>>],
         reads       |-> {i + j : j \in {k \in candidates : k <= last_read}}]

\* The body of the loop over show.songs for one performance: the observation
\* and the indices of the later shows the lookahead reads.
Observe(the_shows, i, song_name, n_shows_window) ==
    LET candidates == WindowCandidates(i, n_shows_window, Len(the_shows))
        hits == {j \in candidates : ShowPlays(the_shows[i + j], song_name)}
        repeated == hits # {}
        last_read == IF repeated THEN RepeatGap(hits) ELSE n_shows_window
    IN  [observation |-> [song     |-> song_name,
                          repeated |-> repeated,
                          gap      |-> IF repeated THEN <<RepeatGap(hits)>> ELSE <<>>],
         reads       |-> {i + j : j \in {k \in candidates : k <= last_read}}]

\* The statistics of one bucket (lines 279-288): the mean of an empty
\* selection, NaN, has den = 0.
BucketStats(observations) ==
    LET repeats == SelectIdx(observations, LAMBDA i : observations[i].repeated)
    IN  [total_observations |-> Len(observations),
         repeat_probability |->
            IF Len(observations) > 0
            THEN [num |-> Len(repeats), den |-> Len(observations)] ELSE Zero,
         avg_gap_when_repeated |->
            IF Len(observations) > 0
            THEN [num |-> SumSeq([i \in 1..Len(repeats) |-> repeats[i].gap[1]]),
                  den |-> Len(repeats)]
            ELSE Zero]

\* analyze_repeat_patterns.  repeats_same_tour, repeats_cross_tour and reads
\* are the function's locals (reads[k] belongs to the k-th performance in
\* processing order); chi2 tells whether the dict has the keys
\* chi2_statistic and chi2_pvalue, whose values are not modelled; raised is
\* the ValueError of chi2_contingency on a table with a zero expected
\* frequency, on which nothing is returned.
AnalyzeRepeatPatterns(the_shows, threshold, n_shows_window) ==
    LET per_show(i) ==
            [p \in 1..Len(the_shows[i].songs) |->
                [tour_start |-> IsTourStart(the_shows, i, threshold),
                 seen       |-> Observe(the_shows, i, the_shows[i].songs[p].song_name,
                                        n_shows_window)]]
        all == Flatten([i \in 1..Len(the_shows) |-> per_show(i)])
        same == SelectIdx(all, LAMBDA k : ~all[k].tour_start)
        cross == SelectIdx(all, LAMBDA k : all[k].tour_start)
        repeats_same_tour == [k \in 1..Len(same) |-> same[k].seen.observation]
        repeats_cross_tour == [k \in 1..Len(cross) |-> cross[k].seen.observation]
        tested == Len(repeats_same_tour) > 0 /\ Len(repeats_cross_tour) > 0
        n_repeated == Cardinality({k \in 1..Len(all) : all[k].seen.observation.repeated})
    IN  [repeats_same_tour  |-> repeats_same_tour,
         repeats_cross_tour |-> repeats_cross_tour,
         reads              |-> [k \in 1..Len(all) |-> all[k].seen.reads],
         window_size        |-> n_shows_window,
         same_tour          |-> BucketStats(repeats_same_tour),
         tour_start         |-> BucketStats(repeats_cross_tour),
         raised             |-> tested /\ (n_repeated = 0 \/ n_repeated = Len(all)),
         chi2               |-> tested /\ n_repeated # 0 /\ n_repeated # Len(all)]

(***************************************************************************)
(* The penalty recommender.  A ratio is [num, den], like a mean; den = 0   *)
(* is the infinity numpy gives for a float division by 0.0.                *)
(***************************************************************************)
One == [num |-> 1, den |-> 1]

\* A ratio that is computed whatever the denominator.
GapRatio_Unguarded(intra_mean, cross_mean) ==
    [num |-> cross_mean.num * intra_mean.den, den |-> cross_mean.den * intra_mean.num]

\* Lines 317-320: cross_mean / intra_mean, or 1.0 when intra_mean is not
\* positive.
GapRatio(intra_mean, cross_mean) ==
    IF intra_mean.num > 0
    THEN [num |-> cross_mean.num * intra_mean.den, den |-> cross_mean.den * intra_mean.num]
    ELSE One

\* 1.0 / gap_ratio.
Reciprocal(ratio) == [num |-> ratio.den, den |-> ratio.num]

\* A recommender whose two thresholds are inclusive.
Recommend_Inclusive(gap_ratio) ==
    IF 5 * gap_ratio.num >= 6 * gap_ratio.den
    THEN [interpretation |-> "resets", recommended_adjustment |-> Reciprocal(gap_ratio)]
    ELSE IF 5 * gap_ratio.num <= 4 * gap_ratio.den
    THEN [interpretation |-> "returns_quickly",
          recommended_adjustment |-> Reciprocal(gap_ratio)]
    ELSE [interpretation |-> "no_effect", recommended_adjustment |-> One]

\* Lines 334-356: the branch on gap_ratio > 1.2 and gap_ratio < 0.8; the
\* interpretation is held as the name of the text's branch.
Recommend(gap_ratio) ==
    IF 5 * gap_ratio.num > 6 * gap_ratio.den
    THEN [interpretation |-> "resets", recommended_adjustment |-> Reciprocal(gap_ratio)]
    ELSE IF 5 * gap_ratio.num < 4 * gap_ratio.den
    THEN [interpretation |-> "returns_quickly",
          recommended_adjustment |-> Reciprocal(gap_ratio)]
    ELSE [interpretation |-> "no_effect", recommended_adjustment |-> One]

\* A recommender that adjusts only on a significant pooled test.
CalculateOptimalPenaltyAdjustment_Gated(agg) ==
    LET gap_ratio == GapRatio(agg.intra_tour.mean_gap_shows, agg.cross_tour.mean_gap_shows)
        significant == \E p \in Range(agg.pvalues) : p.mannwhitney_pvalue < 50
        chosen == IF significant THEN Recommend(gap_ratio) ELSE Recommend(One)
    IN  [raised                 |-> agg.raised,
         intra_tour_mean_gap    |-> agg.intra_tour.mean_gap_shows,
         cross_tour_mean_gap    |-> agg.cross_tour.mean_gap_shows,
         gap_ratio              |-> gap_ratio,
         interpretation         |-> chosen.interpretation,
         recommended_adjustment |-> chosen.recommended_adjustment]

\* calculate_optimal_penalty_adjustment, from line 312 on; agg is what
\* self.aggregate_analysis() returned.
CalculateOptimalPenaltyAdjustment(agg) ==
    LET gap_ratio == GapRatio(agg.intra_tour.mean_gap_shows, agg.cross_tour.mean_gap_shows)
        chosen == Recommend(gap_ratio)
    IN  [raised                 |-> agg.raised,
         intra_tour_mean_gap    |-> agg.intra_tour.mean_gap_shows,
         cross_tour_mean_gap    |-> agg.cross_tour.mean_gap_shows,
         gap_ratio              |-> gap_ratio,
         interpretation         |-> chosen.interpretation,
         recommended_adjustment |-> chosen.recommended_adjustment]

(***************************************************************************)
(* The calls of a sequential caller: one call at a time, whose result the  *)
(* caller reads and drops before the next call.                            *)
(***************************************************************************)
\* A call that sorts the song's performance list in place, latest first.
AnalyzeSongCall_SortingInPlace ==
    /\ loaded /\ result = NoResult
    /\ \E song_name \in SongNames :
          \E outcome \in TestOutcomes :
              \E r \in {AnalyzeSong(songs, shows, song_name, outcome)} :
                  /\ result' = [op |-> "analyze_song", song_name |-> song_name,
                                raised |-> r.raised, comparison |-> r.comparison]
                  /\ songs' = [i \in 1..Len(songs) |->
                                IF songs[i].key # song_name THEN songs[i]
                                ELSE [songs[i] EXCEPT !.performances =
                                        [k \in 1..Len(@) |-> @[Len(@) + 1 - k]]]]
    /\ UNCHANGED <<raw, loaded, shows, tours, tour_breaks, break_threshold>>

AnalyzeSongCall ==
    /\ loaded /\ result = NoResult
    /\ \E song_name \in SongNames :
          \E outcome \in TestOutcomes :
              \E r \in {AnalyzeSong(songs, shows, song_name, outcome)} :
                  result' = [op |-> "analyze_song", song_name |-> song_name,
                             raised |-> r.raised, comparison |-> r.comparison]
    /\ UNCHANGED <<raw, loaded, shows, songs, tours, tour_breaks, break_threshold>>

AnalyzeAllSongsCall ==
    /\ loaded /\ result = NoResult
    /\ \E described \in {DescribeAll(songs, shows)} :
           \E min_performances \in MinPerformanceChoices, tests \in TestOracles(described) :
              LET r == AnalyzeAllSongs(songs, described, min_performances, tests)
              IN  result' = [op |-> "analyze_all_songs",
                             min_performances |-> min_performances,
                             raised |-> r.raised, results |-> r.results]
    /\ UNCHANGED <<raw, loaded, shows, songs, tours, tour_breaks, break_threshold>>

AggregateAnalysisCall ==
    /\ loaded /\ result = NoResult
    /\ \E described \in {DescribeAll(songs, shows)} :
           \E min_performances \in MinPerformanceChoices, tests \in TestOracles(described),
              pooled_outcome \in TestOutcomes :
              LET r == AggregateAnalysis(songs, described, min_performances, tests,
                                         pooled_outcome)
              IN  result' = [op |-> "aggregate_analysis",
                             min_performances |-> min_performances, agg |-> r]
    /\ UNCHANGED <<raw, loaded, shows, songs, tours, tour_breaks, break_threshold>>

AnalyzeRepeatPatternsCall ==
    /\ loaded /\ result = NoResult
    /\ \E n_shows_window \in WindowChoices :
          \E r \in {AnalyzeRepeatPatterns(shows, break_threshold, n_shows_window)} :
              result' = [op |-> "analyze_repeat_patterns", patterns |-> r]
    /\ UNCHANGED <<raw, loaded, shows, songs, tours, tour_breaks, break_threshold>>

\* calculate_optimal_penalty_adjustment(); the caller may call it again on
\* the result of a first call.  The per-song tests of the aggregate_analysis
\* it runs end in song_comparisons only, which the recommender drops: one
\* oracle stands for them all.
CalculateOptimalPenaltyAdjustmentCall ==
    /\ loaded
    /\ result = NoResult \/ result.op = "calculate_optimal_penalty_adjustment"
    /\ \E described \in {DescribeAll(songs, shows)} :
           \E tests \in {CHOOSE t \in TestOracles(described) : TRUE},
              pooled_outcome \in TestOutcomes :
              \E agg \in {AggregateAnalysis(songs, described, DefaultMinPerformances,
                                            tests, pooled_outcome)} :
                  result' = [op  |-> "calculate_optimal_penalty_adjustment",
                             rec |-> CalculateOptimalPenaltyAdjustment(agg)]
    /\ UNCHANGED <<raw, loaded, shows, songs, tours, tour_breaks, break_threshold>>

\* The caller drops the result it has read.
Discard ==
    /\ result # NoResult
    /\ result' = NoResult
    /\ UNCHANGED <<raw, loaded, shows, songs, tours, tour_breaks, break_threshold>>

Next ==
    \/ LoadAllData
    \/ AnalyzeSongCall
    \/ AnalyzeAllSongsCall
    \/ AggregateAnalysisCall
    \/ AnalyzeRepeatPatternsCall
    \/ CalculateOptimalPenaltyAdjustmentCall
    \/ Discard

Spec == Init /\ [][Next]_vars

(***************************************************************************)
(* An analyzer constructed with a threshold of its own,                    *)
(* TourGapAnalyzer(loader, tour_break_threshold_days), on a loader of a    *)
(* short regular schedule.                                                 *)
(***************************************************************************)
ThresholdChoices == {0, DefaultAnalyzerThreshold, 30}

ConfiguredInputs ==
    {RegularRaw(nt, rl, ig, og, sc) :
        nt \in 1..MaxConfiguredTours, rl \in 1..MaxRunLen,
        ig \in IntraDayGaps, og \in InterDayGaps, sc \in SetlistSchemes}

InitConfigured ==
    /\ raw \in ConfiguredInputs
    /\ loaded = FALSE
    /\ shows = <<>>
    /\ songs = <<>>
    /\ tours = <<>>
    /\ tour_breaks = <<>>
    /\ break_threshold \in ThresholdChoices
    /\ result = NoResult

NextConfigured ==
    \/ LoadAllData
    \/ AnalyzeSongCall
    \/ AnalyzeRepeatPatternsCall
    \/ Discard

SpecConfigured == InitConfigured /\ [][NextConfigured]_vars

(***************************************************************************)
(* A caller that segments the loaded shows again under a threshold of its  *)
(* choice, loader._identify_tours_and_breaks(break_threshold_days): the    *)
(* tours are regrouped and the breaks found are appended to tour_breaks;   *)
(* held_before is the length of tour_breaks before the call.               *)
(***************************************************************************)
SegmentationThresholds == {-1, 0, DefaultBreakThreshold}

IdentifyToursAndBreaksCall ==
    /\ loaded /\ result = NoResult
    /\ \E break_threshold_days \in SegmentationThresholds :
          /\ tours' = IF Len(shows) < 2 THEN tours ELSE BuildTours(tours, shows)
          /\ tour_breaks' = BuildTourBreaks(tour_breaks, shows, break_threshold_days)
          /\ result' = [op |-> "_identify_tours_and_breaks",
                        break_threshold_days |-> break_threshold_days,
                        held_before |-> Len(tour_breaks)]
    /\ UNCHANGED <<raw, loaded, shows, songs, break_threshold>>

NextSegmentation ==
    \/ LoadAllData
    \/ IdentifyToursAndBreaksCall

SpecSegmentation == Init /\ [][NextSegmentation]_vars

(***************************************************************************)
(* A caller that loads again on the same loader, for another range of      *)
(* years, each load rebuilding from the API (a cache miss or               *)
(* force_refresh=True).  An answer holds up to RangeAnswerLen entries of   *)
(* two shows in any arrival order, each entry with the set and the         *)
(* position the API gives it.  The result of a later load holds the number *)
(* of loads made so far.                                                   *)
(***************************************************************************)
MaxLoads == 3   \* loads on one loader

RangeAnswerLen == 2
RangePicks ==
    {[showid |-> 1, song |-> "Tweezer", set |-> "1", position |-> 1],
     [showid |-> 1, song |-> "Ghost",   set |-> "1", position |-> 2],
     [showid |-> 1, song |-> "Ghost",   set |-> "2", position |-> 1],
     [showid |-> 2, song |-> "Tweezer", set |-> "1", position |-> 1],
     [showid |-> 2, song |-> "Ghost",   set |-> "1", position |-> 2]}
RangeDates == {<<0, 14>>, <<0, 15>>}

RangeAnswer(picks, dates) ==
    [i \in 1..Len(picks) |->
        [showid   |-> picks[i].showid,
         showdate |-> dates[picks[i].showid],
         song     |-> picks[i].song,
         position |-> picks[i].position,
         set      |-> picks[i].set,
         gap      |-> 0,
         tourid   |-> 0,
         artistid |-> PhishArtistId]]

RangeAnswers ==
    {RangeAnswer(picks, dates) :
        picks \in SeqsUpTo(RangePicks, RangeAnswerLen), dates \in RangeDates}

InitReload ==
    /\ raw \in RangeAnswers
    /\ loaded = FALSE
    /\ shows = <<>>
    /\ songs = <<>>
    /\ tours = <<>>
    /\ tour_breaks = <<>>
    /\ break_threshold = DefaultAnalyzerThreshold
    /\ result = NoResult

LoadsMade == IF result = NoResult THEN 1 ELSE result.loads

\* load_all_data called again on a loaded loader, rebuilding from the
\* answer of the API for the new range.
LoadAllDataAgain ==
    /\ loaded
    /\ LoadsMade < MaxLoads
    /\ \E raw_setlists \in RangeAnswers :
          /\ raw' = raw_setlists
          /\ \E new_shows \in {BuildShows(SelectIdx(raw_setlists,
                                 LAMBDA i : raw_setlists[i].artistid = PhishArtistId))} :
                /\ shows' = new_shows
                /\ songs' = BuildSongs(songs, new_shows)
                /\ tours' = IF Len(new_shows) < 2 THEN tours
                            ELSE BuildTours(tours, new_shows)
                /\ tour_breaks' = BuildTourBreaks(tour_breaks, new_shows,
                                                  DefaultBreakThreshold)
    /\ result' = [op |-> "load_all_data", loads |-> LoadsMade + 1]
    /\ UNCHANGED <<loaded, break_threshold>>

NextReload ==
    \/ LoadAllData
    \/ LoadAllDataAgain

SpecReload == InitReload /\ [][NextReload]_vars

(***************************************************************************)
(* Properties.                                                             *)
(***************************************************************************)
Perm(n) == {f \in [1..n -> 1..n] : \A i, j \in 1..n : i # j => f[i] # f[j]}

ShowDateOf(show_id) == GetShowById(shows, show_id)[1].show_date

\* The performances of a song of the catalog in date order, and the (show
\* gap, day gap) observations of its consecutive pairs.
PerfsOf(song_name) ==
    LET ps == DictGet(songs, song_name).performances
    IN  SortedByKey(ps, [i \in 1..Len(ps) |-> ps[i].show_date])

PlaysOf(song_name) ==
    IF HasKey(songs, song_name) THEN DictGet(songs, song_name).times_played ELSE 0

\* Does a break of tour_breaks lie between two dates.
RecordedBreakBetween(prev_date, cur_date) ==
    \E k \in 1..Len(tour_breaks) :
        /\ prev_date <= ShowDateOf(tour_breaks[k].end_show)
        /\ ShowDateOf(tour_breaks[k].start_show) <= cur_date

\* The comparisons a result holds.
ComparisonsIn(r) ==
    CASE r.op = "analyze_song"       -> {r.comparison}
      [] r.op = "analyze_all_songs"  -> Range(r.results)
      [] r.op = "aggregate_analysis" -> Range(r.agg.song_comparisons)
      [] OTHER                       -> {}

NamesOf(comparisons) == [i \in 1..Len(comparisons) |-> comparisons[i].song_name]

\* The songs of the catalog, in catalog order, that pass both filters of the
\* Aggregate Analyzer.
PassesBothFilters(song, min_performances, described) ==
    /\ song.times_played >= min_performances
    /\ Len(described[song.name].comparison.intra_tour_gaps) >= MinObservations
    /\ Len(described[song.name].comparison.cross_tour_gaps) >= MinObservations

QualifyingSongs(min_performances) ==
    LET described == DescribeAll(songs, shows)
    IN  SelectIdx(songs, LAMBDA i : PassesBothFilters(songs[i], min_performances, described))

\* C1: analyze_song puts a consecutive pair of performances in the
\* cross-tour population if and only if a TourBreak of tour_breaks lies
\* between the two performance dates, whatever the pair's own day-gap.
C1_CrossIffRecordedBreak ==
    (result.op = "analyze_song" /\ HasKey(songs, result.song_name)) =>
        LET perfs == PerfsOf(result.song_name)
            pairs == [i \in 1..(Len(perfs) - 1) |->
                        [gap   |-> perfs[i + 1].gap,
                         days  |-> perfs[i + 1].show_date - perfs[i].show_date,
                         cross |-> RecordedBreakBetween(perfs[i].show_date,
                                                        perfs[i + 1].show_date)]]
            cross == SelectIdx(pairs, LAMBDA i : pairs[i].cross)
            intra == SelectIdx(pairs, LAMBDA i : ~pairs[i].cross)
        IN  /\ result.comparison.cross_tour_gaps = [i \in 1..Len(cross) |-> cross[i].gap]
            /\ result.comparison.cross_tour_days = [i \in 1..Len(cross) |-> cross[i].days]
            /\ result.comparison.intra_tour_gaps = [i \in 1..Len(intra) |-> intra[i].gap]
            /\ result.comparison.intra_tour_days = [i \in 1..Len(intra) |-> intra[i].days]

\* C2: for a song with k >= 1 performances analyze_song puts each of the k-1
\* consecutive pairs in exactly one population: the two populations together
\* hold k-1 observations, which are the observations of the k-1 pairs, and
\* the parallel lists have equal lengths.
C2_PartitionTotalDisjoint ==
    (result.op = "analyze_song" /\ PlaysOf(result.song_name) >= 1) =>
        LET c == result.comparison
            k == PlaysOf(result.song_name)
            perfs == PerfsOf(result.song_name)
            obs(gaps, days) == [i \in 1..Len(gaps) |-> <<gaps[i], days[i]>>]
            placed == obs(c.intra_tour_gaps, c.intra_tour_days)
                        \o obs(c.cross_tour_gaps, c.cross_tour_days)
            pairs == [i \in 1..(k - 1) |->
                        <<perfs[i + 1].gap, perfs[i + 1].show_date - perfs[i].show_date>>]
            BagOf(seq) == [x \in Range(seq) |-> Cardinality({i \in 1..Len(seq) : seq[i] = x})]
        IN  /\ ~result.raised
            /\ Len(c.intra_tour_gaps) = Len(c.intra_tour_days)
            /\ Len(c.cross_tour_gaps) = Len(c.cross_tour_days)
            /\ Len(c.intra_tour_gaps) + Len(c.cross_tour_gaps) = k - 1
            /\ BagOf(placed) = BagOf(pairs)

C2_Witness ==
    /\ result.op = "analyze_song"
    /\ PlaysOf(result.song_name) >= 4
    /\ Len(result.comparison.intra_tour_gaps) >= 1
    /\ Len(result.comparison.cross_tour_gaps) >= 1

\* C3: tour segmentation emits a TourBreak for an adjacent pair of shows of
\* the date-sorted sequence if and only if their day-gap is strictly greater
\* than the threshold of 14, and one break only: 15 days apart is a break,
\* 14 days apart is none.
C3_BreakIffGapExceedsThreshold ==
    loaded =>
        /\ \A i \in 2..Len(shows) :
              LET days == shows[i].show_date - shows[i - 1].show_date
                  emitted == {k \in 1..Len(tour_breaks) :
                                /\ tour_breaks[k].end_show = shows[i - 1].show_id
                                /\ tour_breaks[k].start_show = shows[i].show_id}
              IN  /\ days > DefaultBreakThreshold => Cardinality(emitted) = 1
                  /\ days <= DefaultBreakThreshold => emitted = {}
                  /\ days = 15 => Cardinality(emitted) = 1
                  /\ days = 14 => emitted = {}
        /\ Len(tour_breaks) =
              Cardinality({i \in 2..Len(shows) :
                  shows[i].show_date - shows[i - 1].show_date > DefaultBreakThreshold})

C3_Witness ==
    /\ loaded
    /\ \E i \in 2..Len(shows) : shows[i].show_date - shows[i - 1].show_date = 15
    /\ \E i \in 2..Len(shows) : shows[i].show_date - shows[i - 1].show_date = 14
    /\ Len(tour_breaks) >= 1

\* C4: for a song the record store does not know, or with fewer than 2
\* performances, analyze_song returns without error a GapComparison with four
\* empty lists, all means, medians and standard deviations 0, and both
\* p-values 1.0.
C4_FewPerformancesGiveDefaults ==
    (result.op = "analyze_song" /\ PlaysOf(result.song_name) < 2) =>
        LET c == result.comparison
        IN  /\ ~result.raised
            /\ c.intra_tour_gaps = <<>> /\ c.intra_tour_days = <<>>
            /\ c.cross_tour_gaps = <<>> /\ c.cross_tour_days = <<>>
            /\ c.intra_mean_gap.num = 0 /\ c.intra_median_gap = 0 /\ c.intra_std_gap.num = 0
            /\ c.cross_mean_gap.num = 0 /\ c.cross_median_gap = 0 /\ c.cross_std_gap.num = 0
            /\ c.ttest_pvalue = DefaultPvalue
            /\ c.mannwhitney_pvalue = DefaultPvalue

C4_Witness ==
    /\ result.op = "analyze_song"
    /\ PlaysOf(result.song_name) = 1
    /\ \E other \in SongNames : PlaysOf(other) >= 2

\* C5: in every GapComparison analyze_song produces, a population of fewer
\* than 5 observations on either side leaves both p-values at exactly 1.0; a
\* p-value other than 1.0 appears only with at least 5 observations on both
\* sides.
C5_TestsNeedFiveOnBothSides ==
    \A c \in ComparisonsIn(result) :
        /\ (Len(c.intra_tour_gaps) < 5 \/ Len(c.cross_tour_gaps) < 5) =>
              (c.ttest_pvalue = DefaultPvalue /\ c.mannwhitney_pvalue = DefaultPvalue)
        /\ (c.ttest_pvalue # DefaultPvalue \/ c.mannwhitney_pvalue # DefaultPvalue) =>
              (Len(c.intra_tour_gaps) >= 5 /\ Len(c.cross_tour_gaps) >= 5)

C5_Witness ==
    /\ result.op = "analyze_song"
    /\ Len(result.comparison.intra_tour_gaps) >= 5
    /\ Len(result.comparison.cross_tour_gaps) \in 1..4
    /\ result.comparison.mannwhitney_pvalue = DefaultPvalue

\* C6: the pooled population sizes of aggregate_analysis are the sums of the
\* population sizes of exactly the songs that pass both filters (played at
\* least min_performances times, at least 5 observations in each population).
C6_PooledSizesSumQualifyingSongs ==
    result.op = "aggregate_analysis" =>
        LET described == DescribeAll(songs, shows)
            qualifying == QualifyingSongs(result.min_performances)
            sizes(field) == [i \in 1..Len(qualifying) |->
                                Len(described[qualifying[i].name].comparison[field])]
        IN  /\ result.agg.total_intra_tour_gaps = SumSeq(sizes("intra_tour_gaps"))
            /\ result.agg.total_cross_tour_gaps = SumSeq(sizes("cross_tour_gaps"))

\* C7: a song that fails the minimum-performance filter or the
\* 5-observations-per-population filter is in neither output of the Aggregate
\* Analyzer, and no error is raised; a song that passes both is in both.
C7_SameSongsInBothOutputs ==
    /\ result.op = "analyze_all_songs" =>
          /\ ~result.raised
          /\ Range(NamesOf(result.results))
                = {q.name : q \in Range(QualifyingSongs(result.min_performances))}
    /\ result.op = "aggregate_analysis" =>
          /\ ~result.agg.raised
          /\ NamesOf(result.agg.song_comparisons)
                = NamesOf(QualifyingSongs(result.min_performances))

\* C8: the pooled comparison of aggregate_analysis has the floor of the
\* per-song comparator: with fewer than 5 observations in a pooled
\* population the tests are skipped and both pooled p-values are the neutral
\* 1.0 (a key the dict does not have reads as 1.0, as the callers read it
\* with agg.get('mannwhitney_pvalue', 1)).
C8_PooledTestsHaveFloor ==
    (/\ result.op = "aggregate_analysis"
     /\ \/ result.agg.total_intra_tour_gaps < 5
        \/ result.agg.total_cross_tour_gaps < 5) =>
        \A p \in Range(result.agg.pvalues) :
            /\ p.ttest_pvalue = DefaultPvalue
            /\ p.mannwhitney_pvalue = DefaultPvalue

\* C9: the list analyze_all_songs returns is in non-decreasing order of
\* mannwhitney_pvalue.
C9_RankingAscendingByPvalue ==
    result.op = "analyze_all_songs" =>
        \A i \in 1..(Len(result.results) - 1) :
            result.results[i].mannwhitney_pvalue <= result.results[i + 1].mannwhitney_pvalue

C9_Witness ==
    /\ result.op = "analyze_all_songs"
    /\ Len(result.results) = 2
    /\ result.results[1].mannwhitney_pvalue < result.results[2].mannwhitney_pvalue
    /\ songs[1].name = result.results[2].song_name

\* C10: the ranking analyze_all_songs returns does not depend on the order in
\* which the songs are processed: the same comparisons collected in any
\* other order are returned as the same sequence of song names.
C10_RankingIndependentOfProcessingOrder ==
    result.op = "analyze_all_songs" =>
        \A f \in Perm(Len(result.results)) :
            NamesOf(RankResults([i \in 1..Len(result.results) |-> result.results[f[i]]]))
                = NamesOf(result.results)

\* The record store the analyses read.
store == <<shows, songs, tours, tour_breaks>>

\* The show-count gaps of the consecutive pairs of a song's performances
\* whose day-gap is above 14 (cross = TRUE), or is not.
PairGaps(song, cross) ==
    LET ps == song.performances
        at == SelectIdx(ps, LAMBDA i :
                 /\ i > 1
                 /\ (ps[i].show_date - ps[i - 1].show_date > 14) = cross)
    IN  [i \in 1..Len(at) |-> at[i].gap]

\* The pooled populations of aggregate_analysis() with its default minimum:
\* the gaps of the songs played often enough that have a gap of each kind,
\* in catalog order.
PooledByDefault(cross) ==
    LET pooled == SelectIdx(songs, LAMBDA i :
                    /\ songs[i].times_played >= DefaultMinPerformances
                    /\ PairGaps(songs[i], TRUE) # <<>>
                    /\ PairGaps(songs[i], FALSE) # <<>>)
    IN  Flatten([i \in 1..Len(pooled) |-> PairGaps(pooled[i], cross)])

\* a / b = c / d for fractions with non-zero denominators.
SameFraction(x, y) == x.num * y.den = y.num * x.den

\* C11: calculate_optimal_penalty_adjustment reports the two pooled
\* show-count means and gap_ratio = cross_mean / intra_mean, and selects by
\* threshold: above 1.2 the adjustment is 1 / gap_ratio with the 'tour breaks
\* reset rotation' text, below 0.8 it is 1 / gap_ratio with the opposite
\* text, from 0.8 to 1.2 inclusive it is 1.0; intra mean 4 and cross mean 9
\* give ratio 9/4 and adjustment 4/9.
C11_RatioSelectsAdjustment ==
    result.op = "calculate_optimal_penalty_adjustment" =>
        LET rec == result.rec
            intra == PooledByDefault(FALSE)
            cross == PooledByDefault(TRUE)
            ratio == rec.gap_ratio
        IN  /\ intra # <<>> =>
                  /\ rec.intra_tour_mean_gap.den > 0
                  /\ rec.intra_tour_mean_gap.num * Len(intra)
                        = SumSeq(intra) * rec.intra_tour_mean_gap.den
            /\ cross # <<>> =>
                  /\ rec.cross_tour_mean_gap.den > 0
                  /\ rec.cross_tour_mean_gap.num * Len(cross)
                        = SumSeq(cross) * rec.cross_tour_mean_gap.den
            /\ rec.intra_tour_mean_gap.num > 0 =>
                  /\ ratio.den > 0
                  /\ ratio.num * rec.cross_tour_mean_gap.den * rec.intra_tour_mean_gap.num
                        = ratio.den * rec.cross_tour_mean_gap.num * rec.intra_tour_mean_gap.den
            /\ 5 * ratio.num > 6 * ratio.den =>
                  /\ rec.interpretation = "resets"
                  /\ rec.recommended_adjustment.den > 0
                  /\ rec.recommended_adjustment.num * ratio.num
                        = rec.recommended_adjustment.den * ratio.den
            /\ (5 * ratio.num < 4 * ratio.den /\ ratio.num > 0) =>
                  /\ rec.interpretation = "returns_quickly"
                  /\ rec.recommended_adjustment.den > 0
                  /\ rec.recommended_adjustment.num * ratio.num
                        = rec.recommended_adjustment.den * ratio.den
            /\ (5 * ratio.num < 4 * ratio.den /\ ratio.num = 0) =>
                  rec.interpretation = "returns_quickly"
            /\ (4 * ratio.den <= 5 * ratio.num /\ 5 * ratio.num <= 6 * ratio.den) =>
                  /\ rec.interpretation = "no_effect"
                  /\ SameFraction(rec.recommended_adjustment, One)
            /\ (SameFraction(rec.intra_tour_mean_gap, [num |-> 4, den |-> 1])
                 /\ SameFraction(rec.cross_tour_mean_gap, [num |-> 9, den |-> 1])) =>
                  /\ SameFraction(ratio, [num |-> 9, den |-> 4])
                  /\ SameFraction(rec.recommended_adjustment, [num |-> 4, den |-> 9])

C11_Witness ==
    /\ result.op = "calculate_optimal_penalty_adjustment"
    /\ SameFraction(result.rec.intra_tour_mean_gap, [num |-> 4, den |-> 1])
    /\ SameFraction(result.rec.cross_tour_mean_gap, [num |-> 9, den |-> 1])
    /\ result.rec.interpretation = "resets"

\* C12: when the pooled intra-tour mean gap is zero, which includes the case
\* of no qualifying song and two empty pooled populations,
\* calculate_optimal_penalty_adjustment does not divide by it: gap_ratio is
\* 1.0, recommended_adjustment is 1.0 and the text is the 'no significant
\* effect' one.
C12_ZeroIntraMeanFallsBack ==
    (/\ result.op = "calculate_optimal_penalty_adjustment"
     /\ SumSeq(PooledByDefault(FALSE)) = 0) =>
        /\ ~result.rec.raised
        /\ result.rec.intra_tour_mean_gap.num = 0
        /\ result.rec.gap_ratio.den # 0
        /\ result.rec.gap_ratio.num = result.rec.gap_ratio.den
        /\ result.rec.recommended_adjustment.den # 0
        /\ result.rec.recommended_adjustment.num = result.rec.recommended_adjustment.den
        /\ result.rec.interpretation = "no_effect"

C12_Witness ==
    /\ result.op = "calculate_optimal_penalty_adjustment"
    /\ PooledByDefault(FALSE) # <<>>
    /\ SumSeq(PooledByDefault(FALSE)) = 0
    /\ SumSeq(PooledByDefault(TRUE)) > 0

Occurrences ==
    Flatten([i \in 1..Len(shows) |->
                [p \in 1..Len(shows[i].songs) |->
                    [show_index |-> i, song |-> shows[i].songs[p].song_name]]])

\* The later shows within the window that hold the song of an occurrence.
Recurrences(occurrence, window) ==
    {j \in 1..window :
        /\ occurrence.show_index + j <= Len(shows)
        /\ occurrence.song \in {shows[occurrence.show_index + j].songs[p].song_name :
                                  p \in 1..Len(shows[occurrence.show_index + j].songs)}}

\* Is the show of an occurrence more than the analyzer's threshold of days
\* after the show before it.
AtTourStart(occurrence) ==
    /\ occurrence.show_index > 1
    /\ shows[occurrence.show_index].show_date
          - shows[occurrence.show_index - 1].show_date > break_threshold

\* The observation analyze_repeat_patterns holds for the k-th occurrence.
ObservationOf(patterns, occurrences, k) ==
    LET rank == Cardinality({m \in 1..k :
                    AtTourStart(occurrences[m]) = AtTourStart(occurrences[k])})
    IN  IF AtTourStart(occurrences[k]) THEN patterns.repeats_cross_tour[rank]
        ELSE patterns.repeats_same_tour[rank]

Min(a, b) == IF a < b THEN a ELSE b

C16_ClassificationUsesConfiguredThreshold ==
    (result.op = "analyze_song" /\ HasKey(songs, result.song_name)) =>
        LET perfs == PerfsOf(result.song_name)
            days == [i \in 1..(Len(perfs) - 1) |->
                        perfs[i + 1].show_date - perfs[i].show_date]
            cross == SelectIdx(days, LAMBDA i : days[i] > break_threshold)
            intra == SelectIdx(days, LAMBDA i : ~(days[i] > break_threshold))
        IN  /\ result.comparison.cross_tour_days = cross
            /\ result.comparison.intra_tour_days = intra

\* C17: analyze_repeat_patterns puts the performances of a show in the
\* tour_start bucket exactly when the show is the first show after a break
\* of the segmentation, that is the start_show of a TourBreak of tour_breaks.
C17_TourStartIffBreakStartShow ==
    result.op = "analyze_repeat_patterns" =>
        LET occurrences == Occurrences
            afterBreak(o) == \E k \in 1..Len(tour_breaks) :
                                tour_breaks[k].start_show = shows[o.show_index].show_id
            starts == SelectIdx(occurrences, LAMBDA k : afterBreak(occurrences[k]))
            others == SelectIdx(occurrences, LAMBDA k : ~afterBreak(occurrences[k]))
            songsOf(seq) == [k \in 1..Len(seq) |-> seq[k].song]
        IN  /\ songsOf(result.patterns.repeats_cross_tour) = songsOf(starts)
            /\ songsOf(result.patterns.repeats_same_tour) = songsOf(others)

\* The 1-based index in shows of the show with this id.
IndexOfShow(show_id) == GetShowIndexById(shows, show_id) + 1

\* C18: the run lengths of every TourBreak agree with the segmentation:
\* shows_in_previous_tour is the number of shows from the previous break's
\* start_show (or the first show) to this break's end_show,
\* shows_in_next_tour the number from this break's start_show to the next
\* break's end_show (or the last show), so shows_in_next_tour of a break is
\* shows_in_previous_tour of the next one.
C18_RunLengthsAgreeWithSegmentation ==
    loaded =>
        \A k \in 1..Len(tour_breaks) :
            LET run_start == IF k = 1 THEN 1
                             ELSE IndexOfShow(tour_breaks[k - 1].start_show)
                run_end == IF k = Len(tour_breaks) THEN Len(shows)
                           ELSE IndexOfShow(tour_breaks[k + 1].end_show)
            IN  /\ tour_breaks[k].shows_in_previous_tour
                      = IndexOfShow(tour_breaks[k].end_show) - run_start + 1
                /\ tour_breaks[k].shows_in_next_tour
                      = run_end - IndexOfShow(tour_breaks[k].start_show) + 1
                /\ k < Len(tour_breaks) =>
                      tour_breaks[k].shows_in_next_tour
                        = tour_breaks[k + 1].shows_in_previous_tour

C18_Witness ==
    /\ loaded
    /\ Len(tour_breaks) >= 3
    /\ tour_breaks[2].shows_in_previous_tour = 3
    /\ tour_breaks[2].shows_in_next_tour = 3
    /\ tour_breaks[1].days_between = 15

\* The breaks a call of _identify_tours_and_breaks appended.
EmittedBreaks ==
    SubSeq(tour_breaks, result.held_before + 1, Len(tour_breaks))

\* The adjacent pairs of shows, by the index of the later show, for which
\* the call emitted a break.
BrokenPairs ==
    {i \in 2..Len(shows) :
        \E k \in 1..Len(EmittedBreaks) :
            /\ EmittedBreaks[k].end_show = shows[i - 1].show_id
            /\ EmittedBreaks[k].start_show = shows[i].show_id}

\* C19 as stated: with a break threshold of zero or below, segmentation
\* emits a TourBreak for every adjacent pair of shows, len(shows) - 1
\* breaks, adjacent shows of one calendar date included.
C19_NonPositiveThresholdBreaksEveryPair ==
    (result.op = "_identify_tours_and_breaks" /\ result.break_threshold_days <= 0) =>
        /\ BrokenPairs = 2..Len(shows)
        /\ Len(shows) >= 1 => Len(EmittedBreaks) = Len(shows) - 1

\* C19, amended: with a negative threshold segmentation emits a TourBreak
\* for every adjacent pair of shows, len(shows) - 1 breaks, adjacent shows
\* of one calendar date included; with a threshold of zero it emits one for
\* every adjacent pair of shows on different dates and none for a pair of
\* shows on the same date.
C19_NonPositiveThresholdBreaksEveryGap ==
    (result.op = "_identify_tours_and_breaks" /\ result.break_threshold_days <= 0) =>
        /\ result.break_threshold_days < 0 =>
              /\ BrokenPairs = 2..Len(shows)
              /\ Len(shows) >= 1 => Len(EmittedBreaks) = Len(shows) - 1
        /\ result.break_threshold_days = 0 =>
              /\ BrokenPairs = {i \in 2..Len(shows) :
                                  shows[i].show_date # shows[i - 1].show_date}
              /\ Len(EmittedBreaks) = Cardinality(BrokenPairs)

C19_Witness ==
    /\ result.op = "_identify_tours_and_breaks"
    /\ result.break_threshold_days = 0
    /\ Len(shows) = 2
    /\ shows[1].show_date = shows[2].show_date
    /\ EmittedBreaks = <<>>

\* The number of loaded shows strictly between two shows of the sequence.
ShowsBetween(prev_show_id, cur_show_id) ==
    Cardinality({i \in 1..Len(shows) :
                    IndexOfShow(prev_show_id) < i /\ i < IndexOfShow(cur_show_id)})

\* C20: every gap observation analyze_song produces for a consecutive pair
\* (prev, cur) carries as show-count gap the number of other loaded shows
\* between prev's show and cur's show, and as day-count gap the days from
\* prev's show date to cur's.
C20_GapCountsShowsBetween ==
    (result.op = "analyze_song" /\ HasKey(songs, result.song_name)) =>
        LET c == result.comparison
            perfs == PerfsOf(result.song_name)
            obs(gaps, days) == [i \in 1..Len(gaps) |-> <<gaps[i], days[i]>>]
            placed == obs(c.intra_tour_gaps, c.intra_tour_days)
                        \o obs(c.cross_tour_gaps, c.cross_tour_days)
            pairs == [i \in 1..(Len(perfs) - 1) |->
                        <<ShowsBetween(perfs[i].show_id, perfs[i + 1].show_id),
                          perfs[i + 1].show_date - perfs[i].show_date>>]
            BagOf(seq) == [x \in Range(seq) |-> Cardinality({i \in 1..Len(seq) : seq[i] = x})]
        IN  BagOf(placed) = BagOf(pairs)

\* C21: after the load phase the performances of every show are ordered by
\* position within set: of two performances of one show with the same set
\* label the one with the smaller position comes earlier in show.songs,
\* whatever order the entries arrived in.
C21_PerformancesOrderedWithinSet ==
    loaded =>
        \A i \in 1..Len(shows) :
            \A p, q \in 1..Len(shows[i].songs) :
                (/\ shows[i].songs[p].set_type = shows[i].songs[q].set_type
                 /\ shows[i].songs[p].position < shows[i].songs[q].position)
                    => p < q

AnalysisOps ==
    {"analyze_song", "analyze_all_songs", "aggregate_analysis",
     "analyze_repeat_patterns", "calculate_optimal_penalty_adjustment"}

\* C22: analyze_song, analyze_all_songs, aggregate_analysis,
\* analyze_repeat_patterns and calculate_optimal_penalty_adjustment leave
\* the record store unchanged: across every such call, and so after any
\* sequence of them, shows, songs (each song's performance list and its
\* order included), tours and tour_breaks are what they were before.
C22_AnalysesLeaveStoreUnchanged ==
    [][result'.op \in AnalysisOps =>
          /\ shows' = shows
          /\ songs' = songs
          /\ tours' = tours
          /\ tour_breaks' = tour_breaks]_vars

C22_Witness ==
    /\ result.op = "aggregate_analysis"
    /\ Len(shows) >= 4
    /\ Len(songs) = 2
    /\ \E i \in 1..Len(songs) :
          /\ Len(songs[i].performances) >= 2
          /\ songs[i].performances[1].show_date < songs[i].performances[2].show_date
    /\ tours # <<>>
    /\ tour_breaks # <<>>

\* The breaks of tour_breaks that join the loaded shows at indices i - 1
\* and i.
BreaksAt(i) ==
    {k \in 1..Len(tour_breaks) :
        /\ tour_breaks[k].end_show = shows[i - 1].show_id
        /\ tour_breaks[k].start_show = shows[i].show_id
        /\ tour_breaks[k].days_between = shows[i].show_date - shows[i - 1].show_date}

\* C23: after any sequence of load_all_data calls on one loader that
\* rebuild from the API, tour_breaks holds exactly one TourBreak per adjacent
\* pair of the currently loaded shows whose day-gap exceeds the threshold,
\* and nothing else: no break of an earlier load is retained or duplicated.
C23_BreaksAreThoseOfLoadedShows ==
    loaded =>
        LET broken == {i \in 2..Len(shows) :
                          shows[i].show_date - shows[i - 1].show_date
                              > DefaultBreakThreshold}
        IN  /\ \A i \in broken : Cardinality(BreaksAt(i)) = 1
            /\ Len(tour_breaks) = Cardinality(broken)

\* The performances of a song in the loaded shows, as (show index, place in
\* the show) pairs.
LoadedPerformancesOf(song_name) ==
    UNION {{<<i, p>> : p \in {q \in 1..Len(shows[i].songs) :
                                shows[i].songs[q].song_name = song_name}} :
              i \in 1..Len(shows)}

\* C24: after any sequence of load_all_data calls on one loader the catalog
\* is derived from the currently loaded shows: the keys of songs are the
\* song names of shows, each song's times_played is the number of its
\* performances in shows and its performance list is in non-decreasing
\* date order; no song of an earlier load survives.
C24_CatalogDerivedFromLoadedShows ==
    loaded =>
        /\ {songs[i].key : i \in 1..Len(songs)}
              = UNION {{shows[i].songs[p].song_name : p \in 1..Len(shows[i].songs)} :
                          i \in 1..Len(shows)}
        /\ \A i \in 1..Len(songs) :
              /\ songs[i].times_played
                    = Cardinality(LoadedPerformancesOf(songs[i].key))
              /\ Len(songs[i].performances) = songs[i].times_played
              /\ \A k \in 1..(Len(songs[i].performances) - 1) :
                    songs[i].performances[k].show_date
                        <= songs[i].performances[k + 1].show_date

\* The consecutive pairs of performances of a song, in date order: the
\* observation of each and whether a break of tour_breaks lies between its
\* two shows.
ConsecutivePairs(song_name) ==
    LET perfs == PerfsOf(song_name)
    IN  [i \in 1..(Len(perfs) - 1) |->
            [gap       |-> perfs[i + 1].gap,
             days      |-> perfs[i + 1].show_date - perfs[i].show_date,
             prev_date |-> perfs[i].show_date,
             separated |-> RecordedBreakBetween(perfs[i].show_date,
                                                perfs[i + 1].show_date)]]

\* How many times x occurs in seq.
CountIn(seq, x) == Cardinality({i \in 1..Len(seq) : seq[i] = x})

\* C25: with the default threshold of 14 days on both sides, a consecutive
\* pair of performances that a TourBreak of tour_breaks separates
\* (prev.show_date <= the break's end_show date and the break's start_show
\* date <= cur.show_date) is classified cross-tour by analyze_song: its
\* day-gap is above 14 and its observation is in the cross-tour lists, once
\* for each such pair.
C25_SeparatedPairsAreCrossTour ==
    (result.op = "analyze_song" /\ HasKey(songs, result.song_name)) =>
        LET pairs == ConsecutivePairs(result.song_name)
            separated == SelectIdx(pairs, LAMBDA i : pairs[i].separated)
            obs == [i \in 1..Len(separated) |-> <<separated[i].gap, separated[i].days>>]
            cross == [i \in 1..Len(result.comparison.cross_tour_gaps) |->
                        <<result.comparison.cross_tour_gaps[i],
                          result.comparison.cross_tour_days[i]>>]
        IN  /\ \A i \in 1..Len(separated) : separated[i].days > DefaultBreakThreshold
            /\ \A x \in Range(obs) : CountIn(obs, x) <= CountIn(cross, x)
            /\ \A i \in 1..Len(separated) :
                  separated[i].days \notin Range(result.comparison.intra_tour_days)

C25_Witness ==
    /\ result.op = "analyze_song"
    /\ HasKey(songs, result.song_name)
    /\ Len(result.comparison.cross_tour_days) >= 2
    /\ \E pair \in Range(ConsecutivePairs(result.song_name)) :
          /\ pair.separated
          /\ pair.days = 16
          /\ \E k \in 1..Len(tour_breaks) :
                /\ pair.prev_date < ShowDateOf(tour_breaks[k].end_show)
                /\ tour_breaks[k].days_between = 15

C27_AdjustmentFiniteAndPositive ==
    result.op = "calculate_optimal_penalty_adjustment" =>
        /\ ~result.rec.raised
        /\ result.rec.recommended_adjustment.den # 0
        /\ result.rec.recommended_adjustment.num * result.rec.recommended_adjustment.den > 0

\* C28: analyze_repeat_patterns records exactly one observation per song
\* performance: the total_observations of same_tour and tour_start add up to
\* the number of performances over all loaded shows, each performance is in
\* exactly one bucket, and every performance of the chronologically first
\* show is in the same_tour bucket.
C28_OneObservationPerPerformance ==
    result.op = "analyze_repeat_patterns" =>
        LET patterns == result.patterns
            occurrences == Occurrences
            songsOf(seq) == [k \in 1..Len(seq) |-> seq[k].song]
            in_first == IF shows = <<>> THEN 0 ELSE Len(shows[1].songs)
        IN  /\ patterns.same_tour.total_observations = Len(patterns.repeats_same_tour)
            /\ patterns.tour_start.total_observations = Len(patterns.repeats_cross_tour)
            /\ patterns.same_tour.total_observations
                  + patterns.tour_start.total_observations = Len(occurrences)
            /\ \A name \in SongNames :
                  CountIn(songsOf(patterns.repeats_same_tour), name)
                      + CountIn(songsOf(patterns.repeats_cross_tour), name)
                    = CountIn(songsOf(occurrences), name)
            /\ Len(patterns.repeats_same_tour) >= in_first
            /\ SubSeq(songsOf(patterns.repeats_same_tour), 1, in_first)
                  = SubSeq(songsOf(occurrences), 1, in_first)
            /\ Len(patterns.repeats_cross_tour)
                  <= Len(occurrences) - in_first

C28_Witness ==
    /\ result.op = "analyze_repeat_patterns"
    /\ break_threshold = 0
    /\ Len(shows) >= 3
    /\ Len(shows[1].songs) = 2
    /\ Len(result.patterns.repeats_same_tour) = 2
    /\ result.patterns.tour_start.total_observations >= 2

\* Is there, among the shows after the show at index i up to the show j
\* later, one that is more than the analyzer's threshold of days after the
\* show before it.
BreakWithin(i, j) ==
    \E m \in (i + 1)..(i + j) :
        shows[m].show_date - shows[m - 1].show_date > break_threshold

\* The offset of the first recurrence of an occurrence within the window; 0
\* when there is none.
FirstRecurrence(occurrence, window) ==
    LET offsets == Recurrences(occurrence, window)
    IN  IF offsets = {} THEN 0 ELSE CHOOSE j \in offsets : \A k \in offsets : j <= k

C30_TourBreaksWellFormed ==
    loaded =>
        /\ \A k \in 1..Len(tour_breaks) :
              LET e == IndexOfShow(tour_breaks[k].end_show)
                  st == IndexOfShow(tour_breaks[k].start_show)
              IN  /\ e >= 1
                  /\ st = e + 1
                  /\ tour_breaks[k].days_between
                        = shows[st].show_date - shows[e].show_date
                  /\ tour_breaks[k].days_between > DefaultBreakThreshold
        /\ \A k \in 1..(Len(tour_breaks) - 1) :
              /\ IndexOfShow(tour_breaks[k].start_show)
                    < IndexOfShow(tour_breaks[k + 1].start_show)
              /\ ShowDateOf(tour_breaks[k].start_show)
                    <= ShowDateOf(tour_breaks[k + 1].end_show)
        /\ \A k, m \in 1..Len(tour_breaks) :
              (/\ tour_breaks[k].end_show = tour_breaks[m].end_show
               /\ tour_breaks[k].start_show = tour_breaks[m].start_show) => k = m
        /\ Len(shows) >= 1 => Len(tour_breaks) <= Len(shows) - 1
        /\ Len(shows) < 2 => tour_breaks = <<>>

C30_Witness ==
    /\ loaded
    /\ Len(tour_breaks) = 2
    /\ tour_breaks[1].days_between = 30
    /\ Len(shows) > Len(tour_breaks) + 1
    /\ \E i \in 2..Len(shows) : shows[i].show_date - shows[i - 1].show_date = 14

====
